---- MODULE Spec2Model ----
(***************************************************************************)
(* blocked_region.py: locate the blocked region of a diffraction image.    *)
(*                                                                         *)
(* find_blocked_region thresholds the image, opens the mask, extracts the  *)
(* contour hierarchy (cv2.findContours, RETR_TREE) and hands it to         *)
(* _lowest_contour_in_hierarchy, which walks the hierarchy from node 0     *)
(* (_node_levels), takes the last depth bucket and, when it holds several  *)
(* contours, the roundest of them (_roundest_contour).                     *)
(*                                                                         *)
(* A hierarchy is a function on 0 .. n-1; entry i is the 4-tuple           *)
(* <<next, prev, child, parent>>, so the code's h[0] is h[1] here and its  *)
(* h[2] is h[3].  A contour is the outline of an axis-parallel rectangle   *)
(* <<x0, y0, x1, y1>> traced pixel by pixel (CHAIN_APPROX_NONE), for which *)
(* cv2.contourArea, cv2.arcLength and cv2.minEnclosingCircle are exact.    *)
(***************************************************************************)
EXTENDS Integers, Sequences, FiniteSets, TLC

\* ------------------------------------------------------------- bounds
MaxNodes == 3        \* contours of a forest handed to the walk
MaxLinkNodes == 2    \* contours of a hierarchy with arbitrary links
MaxH == 2            \* rows of a small image

\* Python's recursion limit (sys.getrecursionlimit(), 1000 by default), scaled
\* to the model: the nested calls Python allows before it raises "maximum
\* recursion depth exceeded".  Every forest of up to MaxNodes contours is
\* walked within it, as the forests of a few hundred contours are in Python.
RecursionLimit == MaxNodes + 2

None == "None"
NoLink == -1

\* ------------------------------------------------------ hierarchy entries
NextSib(h) == h[1]
PrevSib(h) == h[2]
FirstChild(h) == h[3]
Parent(h) == h[4]

Nodes(hier) == DOMAIN hier
NumNodes(hier) == Cardinality(DOMAIN hier)

\* ----------------------------------------------------- input hierarchies
RECURSIVE ParentChainEnds(_, _, _)
ParentChainEnds(par, i, fuel) ==
    IF i = NoLink THEN TRUE
    ELSE IF fuel = 0 THEN FALSE
    ELSE ParentChainEnds(par, par[i], fuel - 1)

ParentMaps(n) ==
    { par \in [0 .. n-1 -> {NoLink} \cup (0 .. n-1)] :
        \A i \in 0 .. n-1 : ParentChainEnds(par, i, n) }

Orders(n) ==
    { ord \in [0 .. n-1 -> 0 .. n-1] :
        \A i, j \in 0 .. n-1 : i # j => ord[i] # ord[j] }

\* the member of S that ord puts first
FirstBy(ord, S) == CHOOSE i \in S : \A j \in S : ord[i] <= ord[j]
LastBy(ord, S) == CHOOSE i \in S : \A j \in S : ord[i] >= ord[j]

\* The RETR_TREE hierarchy of the forest with parent map par whose siblings
\* are chained in the order ord.
MkHier(n, par, ord) ==
    [ i \in 0 .. n-1 |->
        LET sibs == { j \in 0 .. n-1 : par[j] = par[i] }
            after == { j \in sibs : ord[j] > ord[i] }
            before == { j \in sibs : ord[j] < ord[i] }
            kids == { j \in 0 .. n-1 : par[j] = i }
        IN << IF after = {} THEN NoLink ELSE FirstBy(ord, after),
              IF before = {} THEN NoLink ELSE LastBy(ord, before),
              IF kids = {} THEN NoLink ELSE FirstBy(ord, kids),
              par[i] >> ]

\* every contour forest of n contours, under every numbering of the contours
Forests(n) == { MkHier(n, par, ord) : par \in ParentMaps(n), ord \in Orders(n) }

\* hierarchies whose next-sibling and first-child links are arbitrary (cyclic
\* and shared links included); node 0 has no parent and no previous sibling,
\* or has the last node as both
LinkedHierarchies(n) ==
    LET L == {NoLink} \cup (0 .. n-1)
    IN { [ i \in 0 .. n-1 |->
             << nx[i], IF i = 0 THEN up ELSE NoLink,
                ch[i], IF i = 0 THEN up ELSE NoLink >> ] :
           nx \in [0 .. n-1 -> L], ch \in [0 .. n-1 -> L],
           up \in {NoLink, n-1} }

\* n root contours in one sibling chain 0, 1, ..., n-1
ChainHier(n) ==
    [ i \in 0 .. n-1 |->
        << IF i = n-1 THEN NoLink ELSE i + 1, i - 1, NoLink, NoLink >> ]

AllForests == UNION { Forests(n) : n \in 1 .. MaxNodes }
AllLinked == UNION { LinkedHierarchies(n) : n \in 0 .. MaxLinkNodes }
\* forests of about as many contours as the recursion limit, and one more
LongChains == { ChainHier(n) : n \in MaxNodes + 1 .. RecursionLimit + 1 }
Hierarchies == AllForests \cup AllLinked \cup LongChains

\* --------------------------------------------------------------- contours
Square == << 0, 0, 4, 4 >>      \* area 16, perimeter 16
Thin == << 0, 0, 8, 2 >>        \* area 16, perimeter 20
Point == << 2, 2, 2, 2 >>       \* a single pixel: area 0, perimeter 0
Shapes == { Square, Thin, Point }
RegularShapes == { Square, Thin }

\* the contours that may come with a hierarchy in a direct call
ContourLists(hier) ==
    [ DOMAIN hier -> IF hier \in AllForests THEN Shapes
                     ELSE IF hier \in AllLinked THEN RegularShapes
                     ELSE { Square } ]

\* cv2.contourArea and cv2.arcLength(c, 1) of a rectangle outline
contourArea(c) == (c[3] - c[1]) * (c[4] - c[2])
arcLength(c) == 2 * ((c[3] - c[1]) + (c[4] - c[2]))

\* ----------------------------------------------------------------- images
\* An image is a sequence of rows (a 2-D array); img[r][c] is the code's
\* img[r-1, c-1].
ImgWidths == { 1, 3 }
PixelValues == { 0, 1 }
MinSizes == { 1, 5 }           \* min_size; 5 is the default (line 18)

SmallImages ==
    UNION { [ 1 .. h -> [ 1 .. w -> PixelValues ] ] :
              h \in 1 .. MaxH, w \in ImgWidths }

\* 100 x 100, every pixel 200 but a filled disk of radius 10 about (50, 50)
InDisk(r, c) ==
    (r - 1 - 50) * (r - 1 - 50) + (c - 1 - 50) * (c - 1 - 50) <= 10 * 10
DiskImage ==
    [ r \in 1 .. 100 |-> [ c \in 1 .. 100 |->
        IF InDisk(r, c) THEN 0 ELSE 200 ] ]

Images == SmallImages \cup { DiskImage }

Rows(a) == Len(a)
Cols(a) == Len(a[1])
shape(a) == << Rows(a), Cols(a) >>

RECURSIVE GCD(_, _)
GCD(a, b) == IF b = 0 THEN a ELSE GCD(b, a % b)

Combine(kind, x, y) == IF kind = "gcd" THEN GCD(x, y) ELSE x + y

RECURSIVE RowFold(_, _, _, _, _)
\* kind "sum", "sumsq" or "gcd" of row[lo .. hi], pixel values divided by g
RowFold(kind, row, lo, hi, g) ==
    IF lo > hi THEN 0
    ELSE IF lo = hi
    THEN LET v == row[lo] \div g
         IN IF kind = "sumsq" THEN v * v ELSE v
    ELSE LET mid == (lo + hi) \div 2
         IN Combine(kind, RowFold(kind, row, lo, mid, g),
                          RowFold(kind, row, mid + 1, hi, g))

RECURSIVE ImgFold(_, _, _, _, _)
\* the same over the rows a[lo .. hi]
ImgFold(kind, a, lo, hi, g) ==
    IF lo > hi THEN 0
    ELSE IF lo = hi THEN RowFold(kind, a[lo], 1, Cols(a), g)
    ELSE LET mid == (lo + hi) \div 2
         IN Combine(kind, ImgFold(kind, a, lo, mid, g),
                          ImgFold(kind, a, mid + 1, hi, g))

\* The pixel count n, sum S and sum of squares Q of an image whose pixel
\* values are divided by their common divisor g (mean and std scale with the
\* values; the division keeps the products small).
Stats(a) ==
    LET g0 == ImgFold("gcd", a, 1, Rows(a), 1)
        g == IF g0 = 0 THEN 1 ELSE g0
    IN [ g |-> g, n |-> Rows(a) * Cols(a),
         S |-> ImgFold("sum", a, 1, Rows(a), g),
         Q |-> ImgFold("sumsq", a, 1, Rows(a), g) ]

\* p < bar with bar = img.mean() + 2 * img.std() (line 41), in exact
\* arithmetic: mean = S/n and std = sqrt(n*Q - S*S)/n, so p < mean + 2*std
\* iff n*p - S < 2*sqrt(n*Q - S*S)
LessThanBar(p, st) ==
    LET d == st.n * (p \div st.g) - st.S
    IN d < 0 \/ d * d < 4 * (st.n * st.Q - st.S * st.S)

\* p <= bar
AtMostBar(p, st) ==
    LET d == st.n * (p \div st.g) - st.S
    IN d < 0 \/ d * d <= 4 * (st.n * st.Q - st.S * st.S)

\* p < img.mean()
LessThanMean(p, st) == st.n * (p \div st.g) - st.S < 0

\* (img <= bar).astype(np.uint8) * 255
BinarizeInclusive(a) ==
    LET st == Stats(a)
    IN [ r \in 1 .. Rows(a) |-> [ c \in 1 .. Cols(a) |->
           ((IF AtMostBar(a[r][c], st) THEN 1 ELSE 0) * 255) % 256 ] ]

\* (img < img.mean()).astype(np.uint8) * 255
BinarizeBelowMean(a) ==
    LET st == Stats(a)
    IN [ r \in 1 .. Rows(a) |-> [ c \in 1 .. Cols(a) |->
           ((IF LessThanMean(a[r][c], st) THEN 1 ELSE 0) * 255) % 256 ] ]

\* line 42: (img < bar).astype(np.uint8) * 255
Binarize(a) ==
    LET st == Stats(a)
    IN [ r \in 1 .. Rows(a) |-> [ c \in 1 .. Cols(a) |->
           ((IF LessThanBar(a[r][c], st) THEN 1 ELSE 0) * 255) % 256 ] ]

\* cv2.erode / cv2.dilate with the kernel np.ones(k): a 1-D array is a
\* k x 1 column, anchored at its middle; pixels outside the image do not
\* count (the default border value)
Erode(m, k) ==
    [ r \in 1 .. Rows(m) |-> [ c \in 1 .. Cols(m) |->
        IF \A dr \in -(k \div 2) .. (k \div 2) :
              (r + dr) \in 1 .. Rows(m) => m[r + dr][c] = 255
        THEN 255 ELSE 0 ] ]
Dilate(m, k) ==
    [ r \in 1 .. Rows(m) |-> [ c \in 1 .. Cols(m) |->
        IF \E dr \in -(k \div 2) .. (k \div 2) :
              (r + dr) \in 1 .. Rows(m) /\ m[r + dr][c] = 255
        THEN 255 ELSE 0 ] ]
\* cv2.morphologyEx(bin_img, cv2.MORPH_OPEN, np.ones(min_size))
MorphOpen(m, k) == Dilate(Erode(m, k), k)

AllPixels(m, v) ==
    \A r \in 1 .. Rows(m) : \A c \in 1 .. Cols(m) : m[r][c] = v

\* ----------------------------------------------- cv2.findContours outputs
RECURSIVE Preorder(_, _, _)
\* node, then its children, then its next siblings
Preorder(hier, node, fuel) ==
    IF node = NoLink \/ fuel = 0 THEN << >>
    ELSE << node >>
         \o Preorder(hier, FirstChild(hier[node]), fuel - 1)
         \o Preorder(hier, NextSib(hier[node]), fuel - 1)

\* findContours numbers the contours of the forest as its tree iterator
\* meets them: contour 0 is the first root
ExtractedForests ==
    { hier \in AllForests :
        Preorder(hier, 0, NumNodes(hier)) =
            [ i \in 1 .. NumNodes(hier) |-> i - 1 ] }

\* hier is None
NoContours == [ none |-> TRUE, cont |-> << >>, hier |-> << >> ]
OneContour(c) ==
    [ none |-> FALSE,
      cont |-> [ i \in {0} |-> c ],
      hier |-> [ i \in {0} |-> << NoLink, NoLink, NoLink, NoLink >> ] ]

\* What contour extraction may return for a mask: None for a mask with no
\* foreground; the frame of the image for a mask that is all foreground
\* (inset by one pixel where the library clears the border first, which
\* leaves nothing of a mask under 3 pixels wide or high); otherwise None, or
\* some forest of contours, whose geometry the model does not derive from
\* the mask.
Extracted(m) ==
    IF AllPixels(m, 0) THEN { NoContours }
    ELSE IF AllPixels(m, 255)
    THEN { OneContour(<< 0, 0, Cols(m) - 1, Rows(m) - 1 >>),
           IF Cols(m) >= 3 /\ Rows(m) >= 3
           THEN OneContour(<< 1, 1, Cols(m) - 2, Rows(m) - 2 >>)
           ELSE NoContours }
    ELSE { NoContours } \cup
         UNION { { [ none |-> FALSE, cont |-> c, hier |-> h ] :
                     c \in [ DOMAIN h -> Shapes ] } :
                   h \in ExtractedForests } \cup
         { [ none |-> FALSE, cont |-> [ i \in DOMAIN h |-> Square ],
             hier |-> h ] : h \in LongChains }

\* ------------------------------------------------------ _roundest_contour
\* ratio = np.sqrt(area)/perimeter is nan for a contour of perimeter 0
\* (0.0/0.0), and every comparison with nan is false
RatioIsNaN(c) == arcLength(c) = 0
RatioGt(a, b) ==
    /\ ~RatioIsNaN(a)
    /\ ~RatioIsNaN(b)
    /\ contourArea(a) * arcLength(b) * arcLength(b)
         > contourArea(b) * arcLength(a) * arcLength(a)
RatioEq(a, b) ==
    /\ ~RatioIsNaN(a)
    /\ ~RatioIsNaN(b)
    /\ contourArea(a) * arcLength(b) * arcLength(b)
         = contourArea(b) * arcLength(a) * arcLength(a)

RECURSIVE PyMin(_, _, _)
\* min(ratios)
PyMin(cs, k, best) ==
    IF k > Len(cs) THEN best
    ELSE PyMin(cs, k + 1, IF RatioGt(cs[best], cs[k]) THEN k ELSE best)

RECURSIVE PyMax(_, _, _)
\* max(ratios): the position of the item max returns, which replaces its
\* running maximum only by a greater item
PyMax(cs, k, best) ==
    IF k > Len(cs) THEN best
    ELSE PyMax(cs, k + 1, IF RatioGt(cs[k], cs[best]) THEN k ELSE best)

\* ratios.index(m): the first item that is m itself or equals it
ListIndex(cs, m) ==
    CHOOSE i \in 1 .. Len(cs) :
        /\ (i = m \/ RatioEq(cs[i], cs[m]))
        /\ \A j \in 1 .. i - 1 : ~(j = m \/ RatioEq(cs[j], cs[m]))

\* the position in cs of the contour _roundest_contour returns
RoundestContour(cs) == ListIndex(cs, PyMax(cs, 2, 1))

\* cv2.minEnclosingCircle of a rectangle outline: twice the centre's
\* coordinates and the square of the diameter, to stay in the integers
minEnclosingCircle(c) ==
    [ x2 |-> c[1] + c[3], y2 |-> c[2] + c[4],
      d2 |-> (c[3] - c[1]) * (c[3] - c[1]) + (c[4] - c[2]) * (c[4] - c[2]) ]


NoCircle == [ x2 |-> -1, y2 |-> -1, d2 |-> -1 ]

VARIABLES pc, caller, img, min_size, bin_img, contours, hierarchy,
          tree, stack, warned, err, result, circle

vars == << pc, caller, img, min_size, bin_img, contours, hierarchy,
           tree, stack, warned, err, result, circle >>

Init ==
    /\ pc = "idle"
    /\ caller = None
    /\ img = << >>
    /\ min_size = 0
    /\ bin_img = << >>
    /\ contours = << >>
    /\ hierarchy = << >>
    /\ tree = << >>
    /\ stack = << >>
    /\ warned = FALSE
    /\ err = None
    /\ result = NoLink
    /\ circle = NoCircle

Frame(level, node) == [ level |-> level, node |-> node, at |-> "enter" ]

\* the walk seeded at the first root, whatever its index
StartWalkAtRoot ==
    /\ tree' = << << >> >>
    /\ stack' = << Frame(0,
                     IF \E i \in Nodes(hierarchy') :
                            Parent(hierarchy'[i]) = NoLink
                            /\ PrevSib(hierarchy'[i]) = NoLink
                     THEN CHOOSE i \in Nodes(hierarchy') :
                            Parent(hierarchy'[i]) = NoLink
                            /\ PrevSib(hierarchy'[i]) = NoLink
                     ELSE 0) >>
    /\ pc' = "walk"

\* line 88: level_list = _node_levels([[]], hierarchy, 0, 0)
StartWalk ==
    /\ tree' = << << >> >>
    /\ stack' = << Frame(0, 0) >>
    /\ pc' = "walk"

\* a direct call _lowest_contour_in_hierarchy(contours, hierarchy)
CallLowest ==
    /\ pc = "idle"
    /\ \E hier \in Hierarchies :
         \E cont \in ContourLists(hier) :
            /\ hierarchy' = hier
            /\ contours' = cont
    /\ caller' = "_lowest_contour_in_hierarchy"
    /\ StartWalk
    /\ UNCHANGED << img, min_size, bin_img, warned, err, result, circle >>

Top == stack[Len(stack)]
SetTop(f) == [ stack EXCEPT ![Len(stack)] = f ]

\* lines 100-103: h = hier[node]; grow the tree; tree[level].append(node)
NodeEnter ==
    /\ pc = "walk"
    /\ stack # << >>
    /\ Top.at = "enter"
    /\ IF Top.node \notin Nodes(hierarchy)
       THEN /\ pc' = "raised"
            /\ err' = "IndexError"
            /\ UNCHANGED << tree, stack >>
       ELSE LET grown == IF Len(tree) < Top.level + 1
                         THEN Append(tree, << >>) ELSE tree
            IN IF Top.level + 1 > Len(grown)
               THEN /\ pc' = "raised"
                    /\ err' = "IndexError"
                    /\ UNCHANGED << tree, stack >>
               ELSE /\ tree' = [ grown EXCEPT ![Top.level + 1] =
                                   Append(@, Top.node) ]
                    /\ stack' = SetTop([ Top EXCEPT !.at = "sibling" ])
                    /\ UNCHANGED << pc, err >>
    /\ UNCHANGED << caller, img, min_size, bin_img, contours, hierarchy,
                    warned, result, circle >>

\* a recursive call from the top frame, left at `here`: one more Python
\* frame, or "maximum recursion depth exceeded"
Recurse(here, level, node) ==
    IF Len(stack) >= RecursionLimit
    THEN /\ pc' = "raised"
         /\ err' = "RuntimeError"
         /\ UNCHANGED stack
    ELSE /\ stack' = Append(here, Frame(level, node))
         /\ UNCHANGED << pc, err >>

\* lines 104-105: if h[0] >= 0: _node_levels(tree, hier, level, h[0])
NodeSibling ==
    /\ pc = "walk"
    /\ stack # << >>
    /\ Top.at = "sibling"
    /\ LET h == hierarchy[Top.node]
           here == SetTop([ Top EXCEPT !.at = "child" ])
       IN IF NextSib(h) >= 0
          THEN Recurse(here, Top.level, NextSib(h))
          ELSE /\ stack' = here
               /\ UNCHANGED << pc, err >>
    /\ UNCHANGED << caller, img, min_size, bin_img, contours, hierarchy,
                    tree, warned, result, circle >>

\* the child level walked at the parent's level
NodeChildSameLevel ==
    /\ pc = "walk"
    /\ stack # << >>
    /\ Top.at = "child"
    /\ LET h == hierarchy[Top.node]
           here == SetTop([ Top EXCEPT !.at = "return" ])
       IN IF FirstChild(h) >= 0
          THEN Recurse(here, Top.level, FirstChild(h))
          ELSE /\ stack' = here
               /\ UNCHANGED << pc, err >>
    /\ UNCHANGED << caller, img, min_size, bin_img, contours, hierarchy,
                    tree, warned, result, circle >>

\* lines 106-107: if h[2] >= 0: _node_levels(tree, hier, level+1, h[2])
NodeChild ==
    /\ pc = "walk"
    /\ stack # << >>
    /\ Top.at = "child"
    /\ LET h == hierarchy[Top.node]
           here == SetTop([ Top EXCEPT !.at = "return" ])
       IN IF FirstChild(h) >= 0
          THEN Recurse(here, Top.level + 1, FirstChild(h))
          ELSE /\ stack' = here
               /\ UNCHANGED << pc, err >>
    /\ UNCHANGED << caller, img, min_size, bin_img, contours, hierarchy,
                    tree, warned, result, circle >>

\* line 108: return tree
NodeReturn ==
    /\ pc = "walk"
    /\ stack # << >>
    /\ Top.at = "return"
    /\ stack' = SubSeq(stack, 1, Len(stack) - 1)
    /\ pc' = IF Len(stack) = 1 THEN "select" ELSE "walk"
    /\ UNCHANGED << caller, img, min_size, bin_img, contours, hierarchy,
                    tree, warned, err, result, circle >>

\* level_list[0]
FirstLevel(level_list) == level_list[1]
\* line 89: lowest = level_list[-1]
Lowest(level_list) == level_list[Len(level_list)]

\* len(lowest) >= 1
AtLeastOne(lowest) == Len(lowest) >= 1
\* line 90: if len(lowest) > 1
MoreThanOne(lowest) == Len(lowest) > 1

\* line 92: [contours[i] for i in lowest]
Candidates(cont, lowest) == [ k \in 1 .. Len(lowest) |-> cont[lowest[k]] ]

\* lines 89-94: lowest = level_list[-1]; one contour, or warn and take the
\* roundest.  result is the index in contours of the contour returned.
SelectLowest ==
    /\ pc = "select"
    /\ LET lowest == Lowest(tree)
       IN IF MoreThanOne(lowest)
          THEN /\ warned' = TRUE
               /\ result' = lowest[RoundestContour(
                                      Candidates(contours, lowest))]
               /\ err' = err
               /\ pc' = IF caller = "find_blocked_region"
                        THEN "fit" ELSE "returned"
          ELSE IF Len(lowest) = 0
          THEN /\ pc' = "raised"
               /\ err' = "IndexError"
               /\ UNCHANGED << warned, result >>
          ELSE /\ result' = lowest[1]
               /\ pc' = IF caller = "find_blocked_region"
                        THEN "fit" ELSE "returned"
               /\ UNCHANGED << warned, err >>
    /\ UNCHANGED << caller, img, min_size, bin_img, contours, hierarchy,
                    tree, stack, circle >>

\* a call find_blocked_region(img, plot=False, min_size)
CallFind ==
    /\ pc = "idle"
    /\ img' \in Images
    /\ min_size' \in MinSizes
    /\ caller' = "find_blocked_region"
    /\ pc' = "segment"
    /\ UNCHANGED << bin_img, contours, hierarchy, tree, stack, warned, err,
                    result, circle >>

\* lines 41-42: bar = img.mean() + 2 * img.std(); bin_img = (img<bar)...
Threshold ==
    /\ pc = "segment"
    /\ bin_img' = Binarize(img)
    /\ pc' = "open"
    /\ UNCHANGED << caller, img, min_size, contours, hierarchy, tree, stack,
                    warned, err, result, circle >>

\* line 43
Open ==
    /\ pc = "open"
    /\ bin_img' = MorphOpen(bin_img, min_size)
    /\ pc' = "contours"
    /\ UNCHANGED << caller, img, min_size, contours, hierarchy, tree, stack,
                    warned, err, result, circle >>

\* the test of line 46 left out
NeverNone(out) == FALSE
\* line 46: if hier is None
HierIsNone(out) == out.none

\* lines 45-50: findContours; no hierarchy raises, else the walk starts
FindContours ==
    /\ pc = "contours"
    /\ \E out \in Extracted(bin_img) :
         IF HierIsNone(out)
         THEN /\ pc' = "raised"
              /\ err' = "No contours found"
              /\ UNCHANGED << contours, hierarchy, tree, stack >>
         ELSE /\ contours' = out.cont
              /\ hierarchy' = out.hier
              /\ StartWalk
              /\ err' = err
    /\ UNCHANGED << caller, img, min_size, bin_img, warned, result, circle >>

\* lines 51, 65: ((x, y), radius) = cv2.minEnclosingCircle(blocked_region)
FitCircle ==
    /\ pc = "fit"
    /\ circle' = minEnclosingCircle(contours[result])
    /\ pc' = "returned"
    /\ UNCHANGED << caller, img, min_size, bin_img, contours, hierarchy,
                    tree, stack, warned, err, result >>

Next ==
    \/ CallFind
    \/ Threshold
    \/ Open
    \/ FindContours
    \/ CallLowest
    \/ NodeEnter
    \/ NodeSibling
    \/ NodeChild
    \/ NodeReturn
    \/ SelectLowest
    \/ FitCircle

Spec == Init /\ [][Next]_vars
RECURSIVE NodeLevels(_, _, _, _)
\* lines 96-108 as a function of its arguments (the walk of a forest, which
\* the recursion limit does not cut short)
NodeLevels(t, hier, level, node) ==
    LET h == hier[node]
        grown == IF Len(t) < level + 1 THEN Append(t, << >>) ELSE t
        t1 == [ grown EXCEPT ![level + 1] = Append(@, node) ]
        t2 == IF NextSib(h) >= 0
              THEN NodeLevels(t1, hier, level, NextSib(h)) ELSE t1
    IN IF FirstChild(h) >= 0
       THEN NodeLevels(t2, hier, level + 1, FirstChild(h)) ELSE t2

\* lines 88-94 as a function of its arguments: the index of the contour
\* _lowest_contour_in_hierarchy(cont, hier) returns
LowestContour(cont, hier) ==
    LET lowest == Lowest(NodeLevels(<< << >> >>, hier, 0, 0))
    IN IF MoreThanOne(lowest)
       THEN lowest[RoundestContour(Candidates(cont, lowest))]
       ELSE lowest[1]

\* ------------------------------------------------------------- properties
\* the walk has returned its level list
WalkDone == pc \in { "select", "fit", "returned" }
\* _lowest_contour_in_hierarchy has returned a contour
Selected == pc \in { "fit", "returned" }

\* the places <<level, position>> at which node n is recorded
Places(n) ==
    { p \in UNION { { << l, k >> : k \in 1 .. Len(tree[l]) } :
                      l \in 1 .. Len(tree) } : tree[p[1]][p[2]] = n }
Bucket(l) == { tree[l + 1][k] : k \in 1 .. Len(tree[l + 1]) }
Bucketed == UNION { Bucket(l) : l \in 0 .. Len(tree) - 1 }
BucketPairs ==
    UNION { { << n, l >> : n \in Bucket(l) } : l \in 0 .. Len(tree) - 1 }
BucketOf(n) == CHOOSE l \in 0 .. Len(tree) - 1 : n \in Bucket(l)

RECURSIVE PrevChainEnds(_, _, _)
PrevChainEnds(hier, i, fuel) ==
    IF i = NoLink THEN TRUE
    ELSE IF fuel = 0 THEN FALSE
    ELSE PrevChainEnds(hier, PrevSib(hier[i]), fuel - 1)

\* hier is the hierarchy of a contour forest: its four links agree with
\* each other, no contour is its own ancestor, and the roots form one
\* sibling chain
WellFormed(hier) ==
    LET N == DOMAIN hier
        par == [ i \in N |-> Parent(hier[i]) ]
    IN /\ N # {}
       /\ \A i \in N : \A k \in 1 .. 4 : hier[i][k] \in N \cup { NoLink }
       /\ \A i \in N :
            /\ NextSib(hier[i]) # NoLink =>
                 /\ NextSib(hier[i]) # i
                 /\ PrevSib(hier[NextSib(hier[i])]) = i
                 /\ Parent(hier[NextSib(hier[i])]) = Parent(hier[i])
            /\ PrevSib(hier[i]) # NoLink =>
                 NextSib(hier[PrevSib(hier[i])]) = i
            /\ FirstChild(hier[i]) # NoLink =>
                 /\ Parent(hier[FirstChild(hier[i])]) = i
                 /\ PrevSib(hier[FirstChild(hier[i])]) = NoLink
            /\ (Parent(hier[i]) # NoLink /\ PrevSib(hier[i]) = NoLink) =>
                 FirstChild(hier[Parent(hier[i])]) = i
            /\ ParentChainEnds(par, i, Cardinality(N))
            /\ PrevChainEnds(hier, i, Cardinality(N))
       /\ Cardinality({ i \in N : Parent(hier[i]) = NoLink
                                  /\ PrevSib(hier[i]) = NoLink }) = 1

\* contour 0 is the first root of the sibling chain
FirstRootIsZero(hier) ==
    /\ 0 \in DOMAIN hier
    /\ Parent(hier[0]) = NoLink
    /\ PrevSib(hier[0]) = NoLink

RECURSIVE Depth(_, _, _)
\* the number of ancestors of contour n
Depth(hier, n, fuel) ==
    IF Parent(hier[n]) = NoLink \/ fuel = 0 THEN 0
    ELSE 1 + Depth(hier, Parent(hier[n]), fuel - 1)

RECURSIVE LinkClosure(_, _, _)
\* the pairs <<n, d>>: n is reached from node 0 through next-sibling and
\* first-child links, d of them first-child links (at most fuel rounds)
LinkClosure(hier, S, fuel) ==
    LET more == S
            \cup { << NextSib(hier[p[1]]), p[2] >> :
                     p \in { q \in S : NextSib(hier[q[1]]) >= 0 } }
            \cup { << FirstChild(hier[p[1]]), p[2] + 1 >> :
                     p \in { q \in S : FirstChild(hier[q[1]]) >= 0 } }
    IN IF more = S \/ fuel = 0 THEN S ELSE LinkClosure(hier, more, fuel - 1)
Reached(hier) ==
    IF 0 \in DOMAIN hier
    THEN LinkClosure(hier, { << 0, 0 >> }, 2 * Cardinality(DOMAIN hier))
    ELSE {}

\* C1: once the walk of a well-formed contour forest whose contour 0 is the
\* first root has returned, every contour is recorded exactly once, a root
\* in bucket 0 and every other contour in the bucket after its parent's.
C1_DepthBuckets ==
    (WalkDone /\ WellFormed(hierarchy) /\ FirstRootIsZero(hierarchy)) =>
        \A n \in Nodes(hierarchy) :
            /\ Cardinality(Places(n)) = 1
            /\ Parent(hierarchy[n]) = NoLink => BucketOf(n) = 0
            /\ Parent(hierarchy[n]) # NoLink =>
                 BucketOf(n) = 1 + BucketOf(Parent(hierarchy[n]))

\* root -> child -> grandchild, or a child with a sibling: three buckets,
\* or a bucket of two below the roots
C1_Witness ==
    /\ WalkDone
    /\ WellFormed(hierarchy)
    /\ FirstRootIsZero(hierarchy)
    /\ NumNodes(hierarchy) = 3
    /\ Len(tree) = 2
    /\ Len(tree[2]) = 2

\* C2: after the walk the last bucket, which is the candidate set, is not
\* empty and holds exactly the visited contours of maximum depth (depth
\* counted as first-child links from node 0); no bucket is empty and no
\* candidate has a first-child link.
C2_DeepestBucket ==
    WalkDone =>
        LET lowest == Lowest(tree)
            maxd == CHOOSE d \in { p[2] : p \in Reached(hierarchy) } :
                      \A p \in Reached(hierarchy) : p[2] <= d
        IN /\ Len(tree) >= 1
           /\ Len(lowest) >= 1
           /\ \A l \in 1 .. Len(tree) : Len(tree[l]) >= 1
           /\ { lowest[k] : k \in 1 .. Len(lowest) } =
                { p[1] : p \in { q \in Reached(hierarchy) : q[2] = maxd } }
           /\ \A k \in 1 .. Len(lowest) :
                FirstChild(hierarchy[lowest[k]]) = NoLink

\* a walk that went two levels down and left two candidates
C2_Witness ==
    /\ WalkDone
    /\ Len(tree) = 2
    /\ Len(tree[1]) = 1
    /\ Len(Lowest(tree)) = 2
\* a has a roundness sqrt(area)/perimeter, and b has none or a smaller one
Rounder(a, b) ==
    /\ arcLength(a) > 0
    /\ \/ arcLength(b) = 0
       \/ contourArea(a) * arcLength(b) * arcLength(b)
            > contourArea(b) * arcLength(a) * arcLength(a)
LowestSet == { Lowest(tree)[k] : k \in 1 .. Len(Lowest(tree)) }

\* C3: the contour returned is a member of the deepest bucket: its only
\* member, or, of several, one that no other candidate is rounder than.
C3_Roundest ==
    Selected =>
        /\ result \in LowestSet
        /\ Len(Lowest(tree)) = 1 => result = Lowest(tree)[1]
        /\ Len(Lowest(tree)) > 1 =>
             \A n \in LowestSet : ~Rounder(contours[n], contours[result])

\* C3, where every candidate has a perimeter: the contour returned is one
\* that no other candidate is rounder than
C3_RoundestOfRegular ==
    (Selected /\ \A n \in LowestSet : arcLength(contours[n]) > 0) =>
        /\ result \in LowestSet
        /\ \A n \in LowestSet : ~Rounder(contours[n], contours[result])

\* C4: the diagnostic is emitted exactly when the deepest bucket has more
\* than one member, and a contour is returned all the same.
C4_Diagnostic ==
    /\ ~Selected => ~warned
    /\ Selected =>
         /\ warned <=> Len(Lowest(tree)) > 1
         /\ result \in LowestSet
         /\ err = None

\* the tie-break taken inside find_blocked_region, which went on to return
C4_Witness ==
    /\ pc = "returned"
    /\ caller = "find_blocked_region"
    /\ warned
    /\ circle # NoCircle

\* find_blocked_region is past its call of findContours
PastExtraction ==
    /\ caller = "find_blocked_region"
    /\ pc \in { "walk", "select", "fit", "returned", "raised" }

\* C5 as claimed: _lowest_contour_in_hierarchy called with no contours and
\* an empty hierarchy raises "No contours found" and returns nothing, and
\* so does find_blocked_region, before any walk, when there is no hierarchy.
C5_NoContoursFound ==
    /\ (caller = "_lowest_contour_in_hierarchy" /\ NumNodes(hierarchy) = 0
          /\ pc \in { "select", "returned", "raised" }) =>
         (pc = "raised" /\ err = "No contours found" /\ result = NoLink)
    /\ (PastExtraction /\ NumNodes(hierarchy) = 0) =>
         (pc = "raised" /\ err = "No contours found" /\ tree = << >>
            /\ stack = << >> /\ result = NoLink /\ circle = NoCircle)

\* C5 as the code has it: the direct call with an empty hierarchy fails
\* with an IndexError (hier[0]) and returns nothing; find_blocked_region
\* raises "No contours found", before any walk or circle fit, when
\* findContours returns no hierarchy, as it does for a mask with no
\* foreground; and nothing else raises "No contours found".
C5_EmptyInput ==
    /\ (caller = "_lowest_contour_in_hierarchy" /\ NumNodes(hierarchy) = 0
          /\ pc # "walk") =>
         (pc = "raised" /\ err = "IndexError" /\ result = NoLink)
    /\ (PastExtraction /\ NumNodes(hierarchy) = 0) =>
         (pc = "raised" /\ err = "No contours found" /\ tree = << >>
            /\ stack = << >> /\ result = NoLink /\ circle = NoCircle)
    /\ (PastExtraction /\ AllPixels(bin_img, 0)) => NumNodes(hierarchy) = 0
    /\ err = "No contours found" =>
         (PastExtraction /\ NumNodes(hierarchy) = 0)

\* the direct call with nothing to walk has failed
C5_Witness ==
    /\ caller = "_lowest_contour_in_hierarchy"
    /\ NumNodes(hierarchy) = 0
    /\ pc = "raised"

IsDiskImage(a) == Len(a) = 100 /\ a = DiskImage

\* C6 as claimed: for the disk image the mask sets the disk apart from its
\* surroundings, and the circle returned has its centre within 2 pixels of
\* (50, 50) and a radius within 2 of 10.
C6_DiskFound ==
    (IsDiskImage(img) /\ pc = "returned") =>
        /\ bin_img[51][51] # bin_img[1][1]
        /\ circle.x2 \in 96 .. 104
        /\ circle.y2 \in 96 .. 104
        /\ circle.d2 \in 16 * 16 .. 24 * 24

\* C6 as the code has it: mean + 2*std of the disk image is above 200, so
\* every pixel of the mask is foreground before and after the opening; the
\* one contour is the frame of the image (the frame one pixel in, where the
\* library clears the border), and the circle returned is the frame's:
\* centre (49.5, 49.5), diameter the frame's diagonal.
C6_DiskImageFrame ==
    IsDiskImage(img) =>
        /\ pc # "raised"
        /\ pc \in { "open", "contours" } => AllPixels(bin_img, 255)
        /\ pc \in { "walk", "select", "fit", "returned" } =>
             /\ AllPixels(bin_img, 255)
             /\ NumNodes(hierarchy) = 1
        /\ pc = "returned" =>
             /\ ~warned
             /\ circle.x2 = 99
             /\ circle.y2 = 99
             /\ circle.d2 \in { 2 * 99 * 99, 2 * 97 * 97 }

C6_Witness == IsDiskImage(img) /\ pc = "returned" /\ circle.d2 = 2 * 99 * 99

\* the sum over the pixels of (n*v - S)^2
RECURSIVE SumSqDev(_, _, _, _)
SumSqDev(a, n, S, k) ==
    IF k = 0 THEN 0
    ELSE LET r == ((k - 1) \div Cols(a)) + 1
             c == ((k - 1) % Cols(a)) + 1
             d == n * a[r][c] - S
         IN d * d + SumSqDev(a, n, S, k - 1)
RECURSIVE SumPixels(_, _)
SumPixels(a, k) ==
    IF k = 0 THEN 0
    ELSE a[((k - 1) \div Cols(a)) + 1][((k - 1) % Cols(a)) + 1]
         + SumPixels(a, k - 1)

\* p < mean + 2*stddev, the standard deviation being the root of the mean
\* squared deviation: with d = n*p - S, p - mean = d/n and
\* stddev^2 = SumSqDev/n^3, so p - mean < 2*stddev iff d < 0 or
\* n*d^2 < 4*SumSqDev
StrictlyBelowThreshold(a, r, c) ==
    LET n == Rows(a) * Cols(a)
        S == SumPixels(a, n)
        d == n * a[r][c] - S
    IN d < 0 \/ n * d * d < 4 * SumSqDev(a, n, S, n)

\* C7: before the opening the mask has the shape of the image and is 255
\* where the pixel is strictly below mean + 2*stddev, and 0 elsewhere.
C7_Threshold ==
    (pc = "open" /\ img \in SmallImages) =>
        /\ shape(bin_img) = shape(img)
        /\ \A r \in 1 .. Rows(img) : \A c \in 1 .. Cols(img) :
             bin_img[r][c] =
                IF StrictlyBelowThreshold(img, r, c) THEN 255 ELSE 0

\* a mask with foreground and background
C7_Witness ==
    /\ pc = "open"
    /\ img \in SmallImages
    /\ ~AllPixels(bin_img, 0)
    /\ ~AllPixels(bin_img, 255)

\* C8: the walk is seeded at node 0, depth 0, whatever the links of node 0;
\* it buckets exactly the nodes reached from node 0 through next-sibling
\* and first-child links, each at the number of first-child links taken,
\* so that in a forest a node's bucket is its depth less that of node 0;
\* a node reached in no such way is in no bucket and is never selected.
C8_SeededAtZero ==
    /\ stack # << >> => (stack[1].node = 0 /\ stack[1].level = 0)
    /\ (tree # << >> /\ tree[1] # << >>) => tree[1][1] = 0
    /\ WalkDone => BucketPairs = Reached(hierarchy)
    /\ (WalkDone /\ WellFormed(hierarchy)) =>
         \A n \in Bucketed :
            BucketOf(n) = Depth(hierarchy, n, NumNodes(hierarchy))
                            - Depth(hierarchy, 0, NumNodes(hierarchy))
    /\ Selected => result \in { p[1] : p \in Reached(hierarchy) }

\* node 0 has a parent and a child: the child is bucketed one level down,
\* the parent nowhere
C8_Witness ==
    /\ Selected
    /\ WellFormed(hierarchy)
    /\ Parent(hierarchy[0]) # NoLink
    /\ FirstChild(hierarchy[0]) # NoLink
    /\ Parent(hierarchy[0]) \notin Bucketed
    /\ Len(tree) = 2
LinkTargets(hier, n) ==
    { t \in { NextSib(hier[n]), FirstChild(hier[n]) } : t >= 0 }
RECURSIVE NodeReach(_, _, _)
\* the nodes of S and those reached from them through next-sibling and
\* first-child links
NodeReach(hier, S, fuel) ==
    LET more == S \cup UNION { LinkTargets(hier, n) : n \in S }
    IN IF more = S \/ fuel = 0 THEN S ELSE NodeReach(hier, more, fuel - 1)
RECURSIVE LaterSiblings(_, _, _)
\* the nodes after n in its sibling chain
LaterSiblings(hier, n, fuel) ==
    IF NextSib(hier[n]) < 0 \/ fuel = 0 THEN {}
    ELSE { NextSib(hier[n]) }
         \cup LaterSiblings(hier, NextSib(hier[n]), fuel - 1)

\* a finite hierarchy whose next-sibling and first-child links are acyclic
\* and give each node at most one incoming link
LinkForest(hier) ==
    LET N == DOMAIN hier
    IN /\ N # {}
       /\ \A i \in N : \A k \in { 1, 3 } : hier[i][k] \in N \cup { NoLink }
       /\ \A n \in N :
            Cardinality({ e \in N \X { 1, 3 } : hier[e[1]][e[2]] = n }) <= 1
       /\ \A n \in N :
            n \notin NodeReach(hier, LinkTargets(hier, n), Cardinality(N))

\* the walk so far has recorded no node twice and has gone through each
\* node's sibling chain before that node's first child
WalkInOrder ==
    /\ \A n \in Nodes(hierarchy) : Cardinality(Places(n)) <= 1
    /\ WalkDone =>
         \A n \in NodeReach(hierarchy, { 0 }, NumNodes(hierarchy)) :
            Cardinality(Places(n)) = 1
    /\ \A i \in 1 .. Len(stack) :
         \* the call for the next sibling has returned
         (stack[i].at = "return" \/ (stack[i].at = "child" /\ i = Len(stack)))
         =>
            /\ LaterSiblings(hierarchy, stack[i].node, NumNodes(hierarchy))
                 \subseteq Bucket(stack[i].level)
            /\ (stack[i].at = "child"
                  /\ FirstChild(hierarchy[stack[i].node]) >= 0) =>
                 FirstChild(hierarchy[stack[i].node]) \notin Bucketed
            /\ (stack[i].at = "return"
                  /\ FirstChild(hierarchy[stack[i].node]) >= 0) =>
                 (i < Len(stack) \/ FirstChild(hierarchy[stack[i].node])
                                      \in Bucket(stack[i].level + 1))

\* C9: the walk of a finite hierarchy with acyclic links, each node with at
\* most one incoming link, does not fail: it records every node reached
\* from node 0 exactly once, a node's sibling chain before its first child.
C9_Terminates ==
    LinkForest(hierarchy) => (pc # "raised" /\ WalkInOrder)

\* C9 for the hierarchies whose walk stays within the recursion limit
C9_WithinRecursionLimit ==
    (LinkForest(hierarchy) /\ NumNodes(hierarchy) <= RecursionLimit) =>
        (pc # "raised" /\ WalkInOrder)

\* the forests of the same nesting as hier, their siblings in any order,
\* contour 0 the first root
Reorderings(hier) ==
    { h2 \in AllForests :
        /\ DOMAIN h2 = DOMAIN hier
        /\ \A i \in DOMAIN hier : Parent(h2[i]) = Parent(hier[i])
        /\ FirstRootIsZero(h2) }

SeqToSet(q) == { q[k] : k \in 1 .. Len(q) }

====
